---- MODULE Spec2Model ----
(***************************************************************************)
(* The request pipeline of the FastAPI-Book-Service examples: each         *)
(* numbered example module builds one application (a route table, the      *)
(* parameters and dependencies of its handlers, its response models); a    *)
(* request is dispatched to the first matching route, the dependencies of  *)
(* the handler are resolved (providers with yield acquire a resource that  *)
(* is released when the request ends), the parameters are extracted and    *)
(* coerced, the handler runs, the result is filtered by the response       *)
(* model, and the pending teardowns run.                                   *)
(***************************************************************************)
EXTENDS Integers, Sequences, FiniteSets, TLC

\* ------------------------------------------------------------------ texts
\* A text is the sequence of its characters.
\* The texts of main2.py (paths, inputs and constants), as character sequences.
Text2 ==
  [
    products |-> <<"p", "r", "o", "d", "u", "c", "t", "s">>,
    latest |-> <<"l", "a", "t", "e", "s", "t">>,
    users |-> <<"u", "s", "e", "r", "s">>,
    items |-> <<"i", "t", "e", "m", "s">>,
    details |-> <<"d", "e", "t", "a", "i", "l", "s">>,
    profile |-> <<"p", "r", "o", "f", "i", "l", "e">>,
    alice |-> <<"a", "l", "i", "c", "e">>,
    bob |-> <<"b", "o", "b">>,
    username |-> <<"u", "s", "e", "r", "n", "a", "m", "e">>,
    n5 |-> <<"5">>,
    n123 |-> <<"1", "2", "3">>
  ]

\* The texts of main3.py (paths, inputs and constants), as character sequences.
Text3 ==
  [
    search |-> <<"s", "e", "a", "r", "c", "h">>,
    filter |-> <<"f", "i", "l", "t", "e", "r">>,
    compare |-> <<"c", "o", "m", "p", "a", "r", "e">>,
    python |-> <<"p", "y", "t", "h", "o", "n">>,
    default |-> <<"d", "e", "f", "a", "u", "l", "t">>,
    custom |-> <<"c", "u", "s", "t", "o", "m">>,
    price |-> <<"p", "r", "i", "c", "e">>,
    true |-> <<"t", "r", "u", "e">>,
    false |-> <<"f", "a", "l", "s", "e">>,
    n20 |-> <<"2", "0">>,
    nm5 |-> <<"-", "5">>
  ]

\* The texts of main4.py (paths, inputs and constants), as character sequences.
Text4 ==
  [
    abc |-> <<"a", "b", "c">>,
    mixed |-> <<"m", "i", "x", "e", "d">>,
    simple |-> <<"s", "i", "m", "p", "l", "e">>,
    default_token |-> <<"d", "e", "f", "a", "u", "l", "t", "-", "t", "o", "k", "e", "n">>,
    alice_mail |-> <<"a", "l", "i", "c", "e", "@", "e", "x", "a", "m", "p", "l", "e", ".", "c", "o", "m">>
  ]

\* The texts of main5.py (paths, inputs and constants), as character sequences.
Text5 ==
  [
    register |-> <<"r", "e", "g", "i", "s", "t", "e", "r">>,
    users_list |-> <<"u", "s", "e", "r", "s", "-", "l", "i", "s", "t">>,
    bob_mail |-> <<"b", "o", "b", "@", "e", "x", "a", "m", "p", "l", "e", ".", "c", "o", "m">>,
    secret123 |-> <<"s", "e", "c", "r", "e", "t", "1", "2", "3">>,
    card |-> <<"1", "2", "3", "4", "-", "5", "6", "7", "8">>,
    date |-> <<"2", "0", "2", "4", "-", "0", "1", "-", "0", "1">>,
    n7 |-> <<"7">>
  ]

\* The texts of main7.py (paths, inputs and constants), as character sequences.
Text7 ==
  [
    me |-> <<"m", "e">>,
    protected |-> <<"p", "r", "o", "t", "e", "c", "t", "e", "d">>,
    public |-> <<"p", "u", "b", "l", "i", "c">>,
    time |-> <<"t", "i", "m", "e">>,
    secret_token |-> <<"s", "e", "c", "r", "e", "t", "-", "t", "o", "k", "e", "n">>,
    wrong |-> <<"w", "r", "o", "n", "g">>,
    abc123 |-> <<"a", "b", "c", "1", "2", "3">>
  ]

\* The texts of main.py (paths, inputs and constants), as character sequences.
Text8 ==
  [
    stats |-> <<"s", "t", "a", "t", "s">>,
    reset_database |-> <<"r", "e", "s", "e", "t", "-", "d", "a", "t", "a", "b", "a", "s", "e">>
  ]
\* The texts of main6.py (paths, inputs and constants), as character sequences.
Text6 ==
  [
    laptop |-> <<"L", "a", "p", "t", "o", "p">>,
    mouse |-> <<"M", "o", "u", "s", "e">>,
    keyboard |-> <<"K", "e", "y", "b", "o", "a", "r", "d">>,
    error_demo |-> <<"e", "r", "r", "o", "r", "-", "d", "e", "m", "o">>,
    validate_age |-> <<"v", "a", "l", "i", "d", "a", "t", "e", "-", "a", "g", "e">>,
    n1 |-> <<"1">>,
    n2 |-> <<"2">>,
    n3 |-> <<"3">>
  ]
t_chain == <<"c", "h", "a", "i", "n">>

\* ----------------------------------------------------------------- values
\* A typed value: an int, a text, a bool, None, or a provider's result.
VInt(n) == [t |-> "int", n |-> n]
VStr(s) == [t |-> "str", s |-> s]
VBool(b) == [t |-> "bool", b |-> b]
VNone == [t |-> "none"]
\* The value one invocation of a provider produced: the n-th invocation of it.
VDep(p, n) == [t |-> "dep", p |-> p, n |-> n]
\* A coercion that failed.
VBad == [t |-> "bad"]

Digits == {"0", "1", "2", "3", "4", "5", "6", "7", "8", "9"}
DigitVal(c) ==
    CASE c = "0" -> 0 [] c = "1" -> 1 [] c = "2" -> 2 [] c = "3" -> 3
      [] c = "4" -> 4 [] c = "5" -> 5 [] c = "6" -> 6 [] c = "7" -> 7
      [] c = "8" -> 8 [] c = "9" -> 9

RECURSIVE DecimalOf(_)
DecimalOf(s) ==
    IF s = <<>> THEN 0
    ELSE 10 * DecimalOf(SubSeq(s, 1, Len(s) - 1)) + DigitVal(s[Len(s)])

AllDigits(s) == s # <<>> /\ \A i \in 1..Len(s) : s[i] \in Digits

\* int("...") of a path or query text: an optional sign, then decimal digits.
ParseInt(s) ==
    IF AllDigits(s) THEN VInt(DecimalOf(s))
    ELSE IF s # <<>> /\ s[1] = "-" /\ AllDigits(Tail(s)) THEN VInt(0 - DecimalOf(Tail(s)))
    ELSE IF s # <<>> /\ s[1] = "+" /\ AllDigits(Tail(s)) THEN VInt(DecimalOf(Tail(s)))
    ELSE VBad

\* bool("...") of a query text, as the validator reads it.
ParseBool(s) ==
    IF s \in {Text3.true, <<"1">>, <<"o", "n">>, <<"y", "e", "s">>, <<"t">>, <<"y">>} THEN VBool(TRUE)
    ELSE IF s \in {Text3.false, <<"0">>, <<"o", "f", "f">>, <<"n", "o">>, <<"f">>, <<"n">>} THEN VBool(FALSE)
    ELSE VBad

\* The declared semantic type applied to a raw text.
Coerce(type, s) ==
    CASE type = "int" -> ParseInt(s)
      [] type = "float" -> ParseInt(s)
      [] type = "bool" -> ParseBool(s)
      [] OTHER -> VStr(s)

\* ----------------------------------------------------------------- routes
Lit(s) == [lit |-> TRUE, text |-> s, name |-> ""]
Var(n) == [lit |-> FALSE, text |-> <<>>, name |-> n]
Route(m, pat, h) == [method |-> m, pattern |-> pat, handler |-> h]

\* The route tables, in the order the decorators run.
Routes2 ==
    << Route("GET", <<>>, "read_root"),
       Route("GET", <<Lit(Text2.users), Var("user_id")>>, "get_user"),
       Route("GET", <<Lit(Text2.users), Var("username"), Lit(Text2.profile)>>, "get_user_profile"),
       Route("GET", <<Lit(Text2.items), Var("item_id"), Lit(Text2.details)>>, "get_item_details"),
       Route("GET", <<Lit(Text2.products), Lit(Text2.latest)>>, "get_latest_products"),
       Route("GET", <<Lit(Text2.products), Var("product_id")>>, "get_product") >>

Routes3 ==
    << Route("GET", <<>>, "read_root"),
       Route("GET", <<Lit(Text3.search)>>, "search"),
       Route("GET", <<Lit(Text2.items)>>, "list_items"),
       Route("GET", <<Lit(Text3.filter)>>, "filter_items"),
       Route("GET", <<Lit(Text3.compare)>>, "compare_params"),
       Route("GET", <<Lit(Text3.compare), Var("path_id")>>, "compare_path") >>

Routes4 ==
    << Route("GET", <<>>, "read_root"),
       Route("POST", <<Lit(Text2.users)>>, "create_user4"),
       Route("POST", <<Lit(Text2.products)>>, "create_product"),
       Route("POST", <<Lit(Text4.mixed)>>, "mixed_parameters"),
       Route("POST", <<Lit(Text4.simple)>>, "simple_body") >>

Routes5 ==
    << Route("GET", <<>>, "read_root"),
       Route("POST", <<Lit(Text5.register)>>, "register_user"),
       Route("GET", <<Lit(Text2.users), Var("user_id")>>, "get_user5"),
       Route("GET", <<Lit(Text2.users), Var("user_id"), Lit(Text2.details)>>, "get_user_details"),
       Route("GET", <<Lit(Text5.users_list)>>, "get_users5") >>

Routes6 ==
    << Route("GET", <<>>, "read_root"),
       Route("GET", <<Lit(Text2.items), Var("item_id")>>, "get_item"),
       Route("POST", <<Lit(Text2.items)>>, "create_item"),
       Route("DELETE", <<Lit(Text2.items), Var("item_id")>>, "delete_item"),
       Route("GET", <<Lit(Text6.error_demo)>>, "error_demo"),
       Route("POST", <<Lit(Text6.validate_age)>>, "validate_age") >>

Routes7 ==
    << Route("GET", <<Lit(Text7.time)>>, "show_time"),
       Route("GET", <<Lit(Text7.public)>>, "public_endpoint"),
       Route("GET", <<Lit(Text7.protected)>>, "protected_endpoint"),
       Route("GET", <<Lit(Text7.me)>>, "get_my_profile"),
       Route("GET", <<Lit(Text2.items)>>, "get_items"),
       Route("GET", <<Lit(Text2.users)>>, "get_users7") >>

Routes8 ==
    << Route("GET", <<>>, "read_root"),
       Route("POST", <<Lit(Text2.users)>>, "create_user"),
       Route("GET", <<Lit(Text2.users)>>, "get_users"),
       Route("GET", <<Lit(Text2.users), Var("user_id")>>, "get_user8"),
       Route("GET", <<Lit(Text2.users), Lit(Text2.username), Var("username")>>, "get_user_by_username"),
       Route("PUT", <<Lit(Text2.users), Var("user_id")>>, "update_user"),
       Route("DELETE", <<Lit(Text2.users), Var("user_id")>>, "delete_user"),
       Route("GET", <<Lit(Text8.stats)>>, "get_stats"),
       Route("POST", <<Lit(Text8.reset_database)>>, "reset_database") >>

\* A path pattern matches a path when every literal segment equals the path's
\* segment and every variable segment stands for a non-empty one.
Match(pattern, path) ==
    /\ Len(pattern) = Len(path)
    /\ \A i \in 1..Len(pattern) :
          IF pattern[i].lit THEN pattern[i].text = path[i] ELSE path[i] # <<>>

\* The values of the variable segments of a matched pattern.
PathVars(pattern) == {pattern[i].name : i \in {j \in 1..Len(pattern) : ~pattern[j].lit}}
PathParams(pattern, path) ==
    [n \in PathVars(pattern) |->
        path[CHOOSE i \in 1..Len(pattern) : ~pattern[i].lit /\ pattern[i].name = n]]

NotFound == [kind |-> "notfound", idx |-> 0]
MethodNotAllowed == [kind |-> "method", idx |-> 0]
Found(i) == [kind |-> "route", idx |-> i]

\* Faulty variant: The matching route with the most literal segments, whatever the order.
DispatchMostSpecific(table, method, path) ==
    LET full == {i \in 1..Len(table) :
                    Match(table[i].pattern, path) /\ table[i].method = method}
        lits(i) == Cardinality({k \in 1..Len(table[i].pattern) : table[i].pattern[k].lit})
    IN  IF full # {} THEN Found(CHOOSE i \in full : \A j \in full : lits(i) >= lits(j))
        ELSE IF \E i \in 1..Len(table) : Match(table[i].pattern, path) THEN MethodNotAllowed
        ELSE NotFound

\* The first route, in registration order, whose pattern and method match; a
\* path that matches under another method only is 405, no match is 404.
Dispatch(table, method, path) ==
    LET full == {i \in 1..Len(table) :
                    Match(table[i].pattern, path) /\ table[i].method = method}
        partial == {i \in 1..Len(table) : Match(table[i].pattern, path)}
    IN  IF full # {} THEN Found(CHOOSE i \in full : \A j \in full : i <= j)
        ELSE IF partial # {} THEN MethodNotAllowed
        ELSE NotFound

\* ------------------------------------------------------------- parameters
NoC == [has |-> FALSE, n |-> 0]
C(n) == [has |-> TRUE, n |-> n]

\* A declared input of a handler or provider. marker is what the declaration
\* says explicitly: "" (a bare annotation), "Query", "Body" or "Depends".
Param(name, type, marker, hasDefault, default) ==
    [name |-> name, type |-> type, marker |-> marker, hasDefault |-> hasDefault,
     default |-> default, dep |-> "", schema |-> "",
     gt |-> NoC, ge |-> NoC, le |-> NoC, minlen |-> NoC, maxlen |-> NoC]
Req(name, type) == Param(name, type, "", FALSE, VNone)
Opt(name, type, default) == Param(name, type, "", TRUE, default)
Dep(name, provider) == [Param(name, "dep", "Depends", TRUE, VNone) EXCEPT !.dep = provider]
Model(name, schema) == [Param(name, "model", "", FALSE, VNone) EXCEPT !.schema = schema]
BodyReq(name, type) == Param(name, type, "Body", FALSE, VNone)
QueryOpt(name, type, default) == Param(name, type, "Query", TRUE, default)

\* The signatures of the handlers and providers, example by example.
Params2(f) ==
    CASE f = "get_user" -> <<Req("user_id", "int")>>
      [] f = "get_user_profile" -> <<Req("username", "str")>>
      [] f = "get_item_details" -> <<Req("item_id", "int")>>
      [] f = "get_product" -> <<Req("product_id", "int")>>
      [] OTHER -> <<>>

Params3(f) ==
    CASE f = "search" -> <<Req("q", "str"), Opt("limit", "int", VInt(10))>>
      [] f = "list_items" ->
            <<Opt("skip", "int", VInt(0)), Opt("limit", "int", VInt(10)),
              Opt("sort_by", "str", VNone)>>
      [] f = "filter_items" ->
            <<[QueryOpt("min_price", "float", VInt(0)) EXCEPT !.ge = C(0)],
              [QueryOpt("max_price", "float", VInt(1000)) EXCEPT !.le = C(10000)],
              QueryOpt("in_stock", "bool", VBool(TRUE)),
              [QueryOpt("category", "str", VNone) EXCEPT !.minlen = C(2), !.maxlen = C(50)]>>
      [] f = "compare_params" -> <<Opt("path_id", "str", VStr(Text3.default))>>
      [] f = "compare_path" -> <<Req("path_id", "str")>>
      [] OTHER -> <<>>

Params4(f) ==
    CASE f = "create_user4" -> <<Model("user", "User")>>
      [] f = "create_product" -> <<Model("product", "Product")>>
      [] f = "mixed_parameters" ->
            <<Req("user_id", "int"), Model("user", "User"),
              Opt("token", "str", VStr(Text4.default_token))>>
      [] f = "simple_body" -> <<BodyReq("name", "str"), BodyReq("age", "int")>>
      [] OTHER -> <<>>

Params5(f) ==
    CASE f = "register_user" -> <<Model("user", "UserInput")>>
      [] f = "get_user5" -> <<Req("user_id", "int")>>
      [] f = "get_user_details" -> <<Req("user_id", "int")>>
      [] OTHER -> <<>>

Params6(f) ==
    CASE f = "get_item" -> <<Req("item_id", "int")>>
      [] f = "create_item" -> <<Model("item", "Item")>>
      [] f = "delete_item" -> <<Req("item_id", "int")>>
      [] f = "error_demo" -> <<Opt("code", "int", VInt(400))>>
      [] f = "validate_age" -> <<Req("age", "int")>>
      [] OTHER -> <<>>

Params7(f) ==
    CASE f = "show_time" -> <<Dep("current_time", "get_current_time")>>
      [] f = "get_user_agent" -> <<Opt("user_agent", "str", VNone)>>
      [] f = "verify_token" -> <<Opt("token", "str", VNone)>>
      [] f = "protected_endpoint" -> <<Dep("user", "verify_token")>>
      [] f = "get_current_user" -> <<Dep("db", "get_database"), Opt("token", "str", VNone)>>
      [] f = "get_my_profile" ->
            <<Dep("current_user", "get_current_user"), Dep("db", "get_database")>>
      [] f = "pagination" -> <<Opt("skip", "int", VInt(0)), Opt("limit", "int", VInt(10))>>
      [] f = "get_items" -> <<Dep("page", "pagination")>>
      [] f = "get_users7" -> <<Dep("page", "pagination")>>
      [] OTHER -> <<>>

Params8(f) ==
    CASE f = "create_user" -> <<Model("user", "UserCreate"), Dep("db", "get_db")>>
      [] f = "get_users" ->
            <<Opt("skip", "int", VInt(0)), Opt("limit", "int", VInt(100)), Dep("db", "get_db")>>
      [] f = "get_user8" -> <<Req("user_id", "int"), Dep("db", "get_db")>>
      [] f = "get_user_by_username" -> <<Req("username", "str"), Dep("db", "get_db")>>
      [] f = "update_user" ->
            <<Req("user_id", "int"), Model("user_update", "UserCreate"), Dep("db", "get_db")>>
      [] f = "delete_user" -> <<Req("user_id", "int"), Dep("db", "get_db")>>
      [] f = "get_stats" -> <<Dep("db", "get_db")>>
      [] f = "reset_database" -> <<Dep("db", "get_db")>>
      [] OTHER -> <<>>

In2 == {"get_user", "get_user_profile", "get_item_details", "get_product"}
In3 == {"search", "list_items", "filter_items", "compare_params", "compare_path"}
In4 == {"create_user4", "create_product", "mixed_parameters", "simple_body"}
In5 == {"register_user", "get_user5", "get_user_details"}
In6 == {"get_item", "create_item", "delete_item", "error_demo", "validate_age"}
In7 == {"show_time", "get_user_agent", "verify_token", "protected_endpoint",
        "get_current_user", "get_my_profile", "pagination", "get_items", "get_users7"}
SourceParams(f) ==
    CASE f \in In2 -> Params2(f)
      [] f \in In3 -> Params3(f)
      [] f \in In4 -> Params4(f)
      [] f \in In5 -> Params5(f)
      [] f \in In6 -> Params6(f)
      [] f \in In7 -> Params7(f)
      [] OTHER -> Params8(f)

\* A chain of three providers with yield, each the sub-dependency of the one
\* before: chain_handler needs dep_a, dep_a needs dep_b, dep_b needs dep_c.
ChainCallables == {"chain_handler", "dep_a", "dep_b", "dep_c"}
ChainParams(f) ==
    CASE f = "chain_handler" -> <<Dep("a", "dep_a")>>
      [] f = "dep_a" -> <<Dep("b", "dep_b")>>
      [] f = "dep_b" -> <<Dep("c", "dep_c")>>
      [] OTHER -> <<>>
RoutesChain == << Route("GET", <<Lit(t_chain)>>, "chain_handler") >>

ParamsOf(f) == IF f \in ChainCallables THEN ChainParams(f) ELSE SourceParams(f)

\* Faulty variant: The classification by name and type alone, explicit markers ignored.
ClassifyByTypeOnly(pattern, p) ==
    IF p.marker = "Depends" THEN "dependency"
    ELSE IF p.name \in PathVars(pattern) THEN "path"
    ELSE IF p.type = "model" THEN "body"
    ELSE "query"

\* Where the framework takes a declared input from: a dependency when it is
\* declared with Depends; the path when its name is a variable segment of the
\* route; else what an explicit Body or Query says; else the body for a model
\* type and the query string for a scalar.
Classify(pattern, p) ==
    IF p.marker = "Depends" THEN "dependency"
    ELSE IF p.name \in PathVars(pattern) THEN "path"
    ELSE IF p.marker = "Body" THEN "body"
    ELSE IF p.marker = "Query" THEN "query"
    ELSE IF p.type = "model" THEN "body"
    ELSE "query"

\* ---------------------------------------------------------------- schemas
\* A field of a pydantic model. nullable: Optional[...]; gt, ge, le bound a
\* number; minlen, maxlen bound a text's length.
Field(name, type, required, nullable, default) ==
    [name |-> name, type |-> type, required |-> required, nullable |-> nullable,
     default |-> default, gt |-> NoC, ge |-> NoC, le |-> NoC, minlen |-> NoC, maxlen |-> NoC]
FReq(name, type) == Field(name, type, TRUE, FALSE, VNone)
FOpt(name, type) == Field(name, type, FALSE, TRUE, VNone)
FDef(name, type, default) == Field(name, type, FALSE, FALSE, default)
VList(l) == [t |-> "list", l |-> l]

\* The models of the request-body example.
User ==
    << [FReq("username", "str") EXCEPT !.minlen = C(3), !.maxlen = C(50)],
       FReq("email", "email"),
       [FOpt("age", "int") EXCEPT !.ge = C(0), !.le = C(120)],
       FDef("is_active", "bool", VBool(TRUE)) >>

Product ==
    << [FReq("name", "str") EXCEPT !.minlen = C(1), !.maxlen = C(100)],
       FOpt("description", "str"),
       [FReq("price", "float") EXCEPT !.gt = C(0)],
       [FOpt("tax", "float") EXCEPT !.ge = C(0)],
       FDef("tags", "list", VList(<<>>)) >>

\* The model of the status-code example; a price is a number of cents.
Item == << FReq("name", "str"), FReq("price", "float") >>

\* The models of the response-model example.
UserInput ==
    << FReq("username", "str"), FReq("email", "email"), FReq("password", "str") >>

UserOutput ==
    << FReq("id", "int"), FReq("username", "str"), FReq("email", "email"),
       FReq("is_active", "bool") >>

UserDetailed ==
    << FReq("id", "int"), FReq("username", "str"), FReq("email", "email"),
       FReq("is_active", "bool"), FReq("created_at", "str"), FReq("login_count", "int") >>

\* The schemas of the database example; a datetime is the tick it was taken at.
UserBase ==
    << [FReq("username", "str") EXCEPT !.minlen = C(3), !.maxlen = C(50)],
       FReq("email", "email"),
       [FOpt("full_name", "str") EXCEPT !.maxlen = C(100)],
       FDef("is_active", "bool", VBool(TRUE)) >>

UserCreate == UserBase

UserResponse ==
    UserBase \o << FReq("id", "int"), FReq("created_at", "int"), FReq("updated_at", "int") >>

SchemaOf(name) ==
    CASE name = "User" -> User
      [] name = "Product" -> Product
      [] name = "Item" -> Item
      [] name = "UserInput" -> UserInput
      [] name = "UserOutput" -> UserOutput
      [] name = "UserDetailed" -> UserDetailed
      [] name = "UserCreate" -> UserCreate
      [] name = "UserResponse" -> UserResponse
      [] OTHER -> <<>>

FieldNames(schema) == {schema[i].name : i \in 1..Len(schema)}

\* An e-mail address: one "@", a local part, and a domain with an inner dot.
IsEmail(s) ==
    \E i \in 1..Len(s) :
        /\ s[i] = "@"
        /\ \A j \in 1..Len(s) : s[j] = "@" => j = i
        /\ i > 1
        /\ \E k \in (i + 2)..(Len(s) - 1) : s[k] = "."

\* A JSON value read as the field's type (lax mode: a numeric text is a number).
CoerceJson(type, v) ==
    CASE type \in {"int", "float"} ->
            IF v.t = "int" THEN v ELSE IF v.t = "str" THEN ParseInt(v.s) ELSE VBad
      [] type = "bool" ->
            IF v.t = "bool" THEN v ELSE IF v.t = "str" THEN ParseBool(v.s) ELSE VBad
      [] type \in {"str", "email"} -> IF v.t = "str" THEN v ELSE VBad
      [] type = "list" -> IF v.t = "list" THEN v ELSE VBad
      [] OTHER -> v

\* The constraints of a field or parameter on a coerced value: range, then
\* length, then pattern.
Violates(f, type, v) ==
    \/ v.t = "int" /\ f.ge.has /\ v.n < f.ge.n
    \/ v.t = "int" /\ f.le.has /\ v.n > f.le.n
    \/ v.t = "int" /\ f.gt.has /\ v.n <= f.gt.n
    \/ v.t = "str" /\ f.minlen.has /\ Len(v.s) < f.minlen.n
    \/ v.t = "str" /\ f.maxlen.has /\ Len(v.s) > f.maxlen.n
    \/ v.t = "str" /\ type = "email" /\ ~IsEmail(v.s)

\* What is wrong with one field of a raw object: "" when nothing is.
FieldError(f, obj) ==
    IF f.name \notin DOMAIN obj THEN (IF f.required THEN "missing" ELSE "")
    ELSE IF obj[f.name].t = "none" THEN (IF f.nullable THEN "" ELSE "type")
    ELSE IF CoerceJson(f.type, obj[f.name]).t = "bad" THEN "type"
    ELSE IF Violates(f, f.type, CoerceJson(f.type, obj[f.name])) THEN "constraint"
    ELSE ""

\* Faulty variant: validation that stops at the first offending field.
FieldErrorsFirst(schema, obj) ==
    LET bad == {j \in 1..Len(schema) : FieldError(schema[j], obj) # ""}
    IN  IF bad = {} THEN {}
        ELSE LET i == CHOOSE j \in bad : \A k \in bad : j <= k
             IN  {<<schema[i].name, FieldError(schema[i], obj)>>}

\* Every offending field of a raw object, with what is wrong with it.
FieldErrors(schema, obj) ==
    {<<schema[i].name, FieldError(schema[i], obj)>> :
        i \in {j \in 1..Len(schema) : FieldError(schema[j], obj) # ""}}

\* The validated object: each declared field coerced, or its default.
Validated(schema, obj) ==
    [n \in FieldNames(schema) |->
        LET f == schema[CHOOSE i \in 1..Len(schema) : schema[i].name = n]
        IN  IF n \notin DOMAIN obj THEN f.default
            ELSE IF obj[n].t = "none" THEN VNone
            ELSE CoerceJson(f.type, obj[n])]

\* ------------------------------------------------------------- resolution
VModel(o) == [t |-> "model", o |-> o]
Ok(v) == [err |-> {}, val |-> v]
Fail(loc, name, kind) == [err |-> {<<loc, name, kind>>}, val |-> VBad]

\* The declared inputs of f that are not dependencies, and those read from the body.
OwnParams(f) == {i \in 1..Len(ParamsOf(f)) : ParamsOf(f)[i].marker # "Depends"}
BodyParams(f, pattern) ==
    {i \in OwnParams(f) : Classify(pattern, ParamsOf(f)[i]) = "body"}
\* Several body parameters are read as the keys of one JSON object.
Embedded(f, pattern) == Cardinality(BodyParams(f, pattern)) > 1

\* Faulty variant: An omitted parameter is None, declared default or not.
OmittedAsNone(loc, p) == Ok(VNone)

\* A parameter the request does not carry: its default, or a missing-field error.
Omitted(loc, p) == IF p.hasDefault THEN Ok(p.default) ELSE Fail(loc, p.name, "missing")

\* A scalar parameter read from a raw text (path segment or query value).
FromText(loc, p, s) ==
    LET v == Coerce(p.type, s)
    IN  IF v.t = "bad" THEN Fail(loc, p.name, "type")
        ELSE IF Violates(p, p.type, v) THEN Fail(loc, p.name, "constraint")
        ELSE Ok(v)

\* One declared input of f resolved against the request: its value, or the
\* validation errors it contributes.
ResolveParam(f, pattern, req, pp, p) ==
    LET class == Classify(pattern, p)
    IN  CASE class = "path" -> FromText("path", p, pp[p.name])
          [] class = "query" ->
                IF p.name \in DOMAIN req.query THEN FromText("query", p, req.query[p.name])
                ELSE Omitted("query", p)
          [] class = "body" /\ ~req.hasBody ->
                Omitted("body", IF Embedded(f, pattern) THEN p ELSE [p EXCEPT !.name = ""])
          [] class = "body" /\ req.hasBody /\ Embedded(f, pattern) ->
                IF p.name \notin DOMAIN req.body THEN Omitted("body", p)
                ELSE IF CoerceJson(p.type, req.body[p.name]).t = "bad"
                    THEN Fail("body", p.name, "type")
                ELSE Ok(CoerceJson(p.type, req.body[p.name]))
          [] class = "body" /\ req.hasBody /\ ~Embedded(f, pattern) ->
                LET errs == FieldErrors(SchemaOf(p.schema), req.body)
                IN  IF errs # {} THEN
                        [err |-> {<<"body", e[1], e[2]>> : e \in errs}, val |-> VBad]
                    ELSE Ok(VModel(Validated(SchemaOf(p.schema), req.body)))
          [] OTHER -> Ok(VNone)

\* All the non-dependency inputs of f: every error, and the values by name.
ResolveOwn(f, pattern, req, pp) ==
    LET own == {ParamsOf(f)[i] : i \in OwnParams(f)}
        resolved == {<<p.name, ResolveParam(f, pattern, req, pp, p)>> : p \in own}
    IN  [errors |-> UNION {r[2].err : r \in resolved},
         values |-> [n \in {r[1] : r \in resolved} |->
                        (CHOOSE r \in resolved : r[1] = n)[2].val]]

\* ----------------------------------------------------------- dependencies
\* A provider with yield acquires a resource and releases it after the yield;
\* cleanup says whether the code after the yield stands in a finally block.
Plain == [scoped |-> FALSE, cleanup |-> FALSE]
Yielding == [scoped |-> TRUE, cleanup |-> TRUE]
\* Faulty variant: The release written after the yield without try/finally.
YieldingNoFinally == [scoped |-> TRUE, cleanup |-> FALSE]
get_database == Yielding
get_db == Yielding
ProviderOf(p) ==
    CASE p = "get_database" -> get_database
      [] p = "get_db" -> get_db
      [] p \in {"dep_a", "dep_b", "dep_c"} -> Yielding
      [] OTHER -> Plain

\* The providers f declares with Depends, in declaration order.
DepsOf(f) ==
    LET ps == ParamsOf(f)
    IN  SelectSeq([i \in 1..Len(ps) |-> ps[i]], LAMBDA q : q.marker = "Depends")

\* The order in which the resolver visits providers for f: for each declared
\* dependency in turn, its own dependencies first, then the provider itself.
RECURSIVE Plan(_)
RECURSIVE PlanFrom(_, _, _)
PlanFrom(f, ds, i) ==
    IF i > Len(ds) THEN <<>>
    ELSE Plan(ds[i].dep) \o <<[provider |-> ds[i].dep, consumer |-> f, as |-> ds[i].name]>>
         \o PlanFrom(f, ds, i + 1)
Plan(f) == PlanFrom(f, DepsOf(f), 1)

\* What a provider returns or raises, given its own inputs; n numbers the
\* invocation, so that two invocations give two values.
Returned(v) == [status |-> 0, detail |-> "", val |-> v]
Raised(status, detail) == [status |-> status, detail |-> detail, val |-> VBad]
Falsy(v) == v.t = "none" \/ (v.t = "str" /\ v.s = <<>>)
\* Faulty variant: The token only has to be there.
verify_token_any(token, n) ==
    IF Falsy(token) THEN Raised(401, "Token is required")
    ELSE Returned(VDep("verify_token", n))

verify_token(token, n) ==
    IF Falsy(token) THEN Raised(401, "Token is required")
    ELSE IF token # VStr(Text7.secret_token) THEN Raised(401, "Invalid token")
    ELSE Returned(VDep("verify_token", n))

get_current_user(token, n) ==
    IF Falsy(token) THEN Returned(VNone) ELSE Returned(VDep("get_current_user", n))

ProviderCall(p, vals, n) ==
    CASE p = "verify_token" -> verify_token(vals["token"], n)
      [] p = "get_current_user" -> get_current_user(vals["token"], n)
      [] p = "get_user_agent" ->
            IF Falsy(vals["user_agent"]) THEN Returned(VStr(<<"U", "n", "k", "n", "o", "w", "n">>))
            ELSE Returned(vals["user_agent"])
      [] p = "pagination" ->
            Returned(VModel([skip |-> vals["skip"], limit |-> vals["limit"]]))
      [] OTHER -> Returned(VDep(p, n))

\* --------------------------------------------------------------- handlers
\* A response body: one object, a list of objects, or nothing.
RObj(o) == [k |-> "obj", o |-> o, l |-> <<>>]
RList(l) == [k |-> "list", o |-> <<>>, l |-> l]
RNone == [k |-> "none", o |-> <<>>, l |-> <<>>]

\* What a handler returns or raises, with the store as it leaves it.
Return(body, st) == [status |-> 0, detail |-> "", body |-> body, store |-> st]
Raise(status, detail, st) == [status |-> status, detail |-> detail, body |-> RNone, store |-> st]

\* The users table: its rows in id order, and the next id of its sequence.
EmptyStore == [users |-> <<>>, nextId |-> 1]
RowsWhere(st, field, v) == SelectSeq(st.users, LAMBDA r : r[field] = v)
Without(st, id) == SelectSeq(st.users, LAMBDA r : r["id"] # id)

register_user(a) ==
    RObj([id |-> VInt(123), username |-> a["user"].o["username"],
          email |-> a["user"].o["email"], is_active |-> VBool(TRUE),
          password |-> a["user"].o["password"]])

get_user5(a) ==
    RObj([id |-> a["user_id"], username |-> VStr(Text2.alice), email |-> VStr(Text4.alice_mail),
          is_active |-> VBool(TRUE), password |-> VStr(Text5.secret123),
          credit_card |-> VStr(Text5.card)])

get_user_details(a) ==
    RObj([id |-> a["user_id"], username |-> VStr(Text2.alice), email |-> VStr(Text4.alice_mail),
          is_active |-> VBool(TRUE), created_at |-> VStr(Text5.date), login_count |-> VInt(42)])

get_users5 ==
    RList(<< [id |-> VInt(1), username |-> VStr(Text2.alice), email |-> VStr(Text4.alice_mail),
              is_active |-> VBool(TRUE)],
             [id |-> VInt(2), username |-> VStr(Text2.bob), email |-> VStr(Text5.bob_mail),
              is_active |-> VBool(FALSE)] >>)

get_my_profile(d) ==
    IF Falsy(d["current_user"]) THEN RObj([db |-> d["db"]])
    ELSE RObj([user |-> d["current_user"], db |-> d["db"]])

\* Faulty variant: create_user without its two existence checks, so that a
\* duplicate is only met by the unique indexes at the commit.
create_user_unchecked(a, st, now) ==
    LET u == a["user"].o
        row == [id |-> VInt(st.nextId), username |-> u["username"],
                email |-> u["email"], full_name |-> u["full_name"],
                is_active |-> u["is_active"], created_at |-> VInt(now),
                updated_at |-> VInt(now)]
    IN  IF RowsWhere(st, "username", u["username"]) # <<>>
           \/ RowsWhere(st, "email", u["email"]) # <<>>
            THEN Raise(500, "integrity", st)
        ELSE Return(RObj(row), [users |-> Append(st.users, row), nextId |-> st.nextId + 1])

create_user(a, st, now) ==
    LET u == a["user"].o
    IN  IF RowsWhere(st, "username", u["username"]) # <<>>
            THEN Raise(400, "username", st)
        ELSE IF RowsWhere(st, "email", u["email"]) # <<>>
            THEN Raise(400, "email", st)
        ELSE LET row == [id |-> VInt(st.nextId), username |-> u["username"],
                         email |-> u["email"], full_name |-> u["full_name"],
                         is_active |-> u["is_active"], created_at |-> VInt(now),
                         updated_at |-> VInt(now)]
             IN  Return(RObj(row), [users |-> Append(st.users, row),
                                    nextId |-> st.nextId + 1])

get_users(a, st) ==
    LET skip == a["skip"].n
        limit == a["limit"].n
    IN  IF skip < 0 \/ limit < 0 THEN Raise(500, "database", st)
        ELSE Return(RList(SubSeq(st.users, skip + 1,
                                 IF skip + limit < Len(st.users) THEN skip + limit
                                 ELSE Len(st.users))), st)

\* Faulty variant: a get_user whose query has lost its filter on the id.
get_user8_unfiltered(a, st) ==
    IF st.users = <<>> THEN Raise(404, "id", st) ELSE Return(RObj(st.users[1]), st)

get_user8(a, st) ==
    LET found == RowsWhere(st, "id", a["user_id"])
    IN  IF found = <<>> THEN Raise(404, "id", st) ELSE Return(RObj(found[1]), st)

get_user_by_username(a, st) ==
    LET found == RowsWhere(st, "username", a["username"])
    IN  IF found = <<>> THEN Raise(404, "username", st) ELSE Return(RObj(found[1]), st)

\* The commit fails on the unique indexes of username and email; the error is
\* not caught, and the closed session leaves the row as it was. Without any
\* changed column no UPDATE is sent and updated_at stays.
update_user(a, st, now) ==
    LET found == RowsWhere(st, "id", a["user_id"])
        u == a["user_update"].o
        row == [found[1] EXCEPT !["username"] = u["username"], !["email"] = u["email"],
                                !["full_name"] = u["full_name"],
                                !["is_active"] = u["is_active"],
                                !["updated_at"] =
                                    IF \A c \in DOMAIN u : u[c] = found[1][c]
                                    THEN found[1]["updated_at"] ELSE VInt(now)]
        others == Without(st, a["user_id"])
        clash == \E k \in 1..Len(others) :
                    \/ others[k]["username"] = u["username"]
                    \/ others[k]["email"] = u["email"]
    IN  IF found = <<>> THEN Raise(404, "id", st)
        ELSE IF clash THEN Raise(500, "integrity", st)
        ELSE Return(RObj(row),
                    [st EXCEPT !.users = [k \in 1..Len(st.users) |->
                        IF st.users[k]["id"] = a["user_id"] THEN row ELSE st.users[k]]])

delete_user(a, st) ==
    IF RowsWhere(st, "id", a["user_id"]) = <<>> THEN Raise(404, "id", st)
    ELSE Return(RNone, [st EXCEPT !.users = Without(st, a["user_id"])])

get_stats(st) ==
    LET active == Len(RowsWhere(st, "is_active", VBool(TRUE)))
    IN  Return(RObj([total_users |-> VInt(Len(st.users)), active_users |-> VInt(active),
                     inactive_users |-> VInt(Len(st.users) - active)]), st)

reset_database(st) ==
    Return(RObj([deleted |-> VInt(Len(st.users))]), [st EXCEPT !.users = <<>>])

\* The dict of the status-code example, as the module creates it.
fake_items ==
    (1 :> [name |-> VStr(Text6.laptop), price |-> VInt(99999)])
    @@ (2 :> [name |-> VStr(Text6.mouse), price |-> VInt(2999)])
    @@ (3 :> [name |-> VStr(Text6.keyboard), price |-> VInt(7999)])
ItemStore == [items |-> fake_items]
Largest(S) == CHOOSE n \in S : \A m \in S : m <= n

get_item(a, st) ==
    IF a["item_id"].n \notin DOMAIN st.items THEN Raise(404, "item", st)
    ELSE Return(RObj(st.items[a["item_id"].n]), st)

\* max() of an empty sequence raises ValueError, which nothing catches.
create_item(a, st) ==
    IF DOMAIN st.items = {} THEN Raise(500, "ValueError", st)
    ELSE LET new_id == Largest(DOMAIN st.items) + 1
             item == a["item"].o
         IN  Return(RObj([id |-> VInt(new_id)] @@ item),
                    [st EXCEPT !.items = (new_id :> item) @@ st.items])

delete_item(a, st) ==
    IF a["item_id"].n \notin DOMAIN st.items THEN Raise(404, "item", st)
    ELSE Return(RNone, [st EXCEPT !.items =
                            [k \in DOMAIN st.items \ {a["item_id"].n} |-> st.items[k]]])

error_demo(a, st) == Raise(a["code"].n, "error", st)

validate_age(a, st) ==
    IF a["age"].n < 0 THEN Raise(400, "negative", st)
    ELSE IF a["age"].n < 18 THEN Raise(403, "minor", st)
    ELSE Return(RObj(a), st)

\* The handler h applied to its own inputs a and its dependencies d. The
\* handlers that only echo their inputs return them (their message texts are
\* left out).
HandlerCall(h, a, d, st, now) ==
    CASE h = "register_user" -> Return(register_user(a), st)
      [] h = "get_user5" -> Return(get_user5(a), st)
      [] h = "get_user_details" -> Return(get_user_details(a), st)
      [] h = "get_users5" -> Return(get_users5, st)
      [] h = "get_item" -> get_item(a, st)
      [] h = "create_item" -> create_item(a, st)
      [] h = "delete_item" -> delete_item(a, st)
      [] h = "error_demo" -> error_demo(a, st)
      [] h = "validate_age" -> validate_age(a, st)
      [] h = "get_my_profile" -> Return(get_my_profile(d), st)
      [] h = "create_user" -> create_user(a, st, now)
      [] h = "get_users" -> get_users(a, st)
      [] h = "get_user8" -> get_user8(a, st)
      [] h = "get_user_by_username" -> get_user_by_username(a, st)
      [] h = "update_user" -> update_user(a, st, now)
      [] h = "delete_user" -> delete_user(a, st)
      [] h = "get_stats" -> get_stats(st)
      [] h = "reset_database" -> reset_database(st)
      [] DOMAIN d # {} -> Return(RObj(d), st)
      [] OTHER -> Return(RObj(a), st)

\* The status of a handler that returns.
SuccessStatus(h) ==
    CASE h \in {"create_user", "create_item"} -> 201
      [] h \in {"delete_user", "delete_item"} -> 204
      [] OTHER -> 200

\* The response_model of a route: no schema when the decorator names none.
NoModel == [schema |-> "", list |-> FALSE]
ResponseModel(h) ==
    CASE h \in {"register_user", "get_user5"} -> [schema |-> "UserOutput", list |-> FALSE]
      [] h = "get_user_details" -> [schema |-> "UserDetailed", list |-> FALSE]
      [] h = "get_users5" -> [schema |-> "UserOutput", list |-> TRUE]
      [] h \in {"create_user", "get_user8", "get_user_by_username", "update_user"} ->
            [schema |-> "UserResponse", list |-> FALSE]
      [] h = "get_users" -> [schema |-> "UserResponse", list |-> TRUE]
      [] OTHER -> NoModel

\* ---------------------------------------------------------- response shape
\* One object projected onto the declared fields: the fields the schema does
\* not declare are dropped, a declared field's default fills its absence.
\* Faulty variant: The object as the handler returned it.
ShapeObjUnfiltered(schema, o) == o

ShapeObj(schema, o) == Validated(schema, o)

\* The body filtered by the response model, element-wise for a list; ok is
\* false when a declared field is missing or ill-typed (a server error).
Shape(rm, body) ==
    LET schema == SchemaOf(rm.schema)
    IN  IF rm.schema = "" THEN [ok |-> TRUE, body |-> body]
        ELSE IF rm.list THEN
            IF body.k = "list" /\ \A i \in 1..Len(body.l) : FieldErrors(schema, body.l[i]) = {}
            THEN [ok |-> TRUE,
                  body |-> RList([i \in 1..Len(body.l) |-> ShapeObj(schema, body.l[i])])]
            ELSE [ok |-> FALSE, body |-> RNone]
        ELSE IF body.k = "obj" /\ FieldErrors(schema, body.o) = {}
            THEN [ok |-> TRUE, body |-> RObj(ShapeObj(schema, body.o))]
        ELSE [ok |-> FALSE, body |-> RNone]

\* --------------------------------------------------------------- requests
Request(m, path, query) ==
    [method |-> m, path |-> path, query |-> query, hasBody |-> FALSE, body |-> <<>>]
WithBody(r, o) == [r EXCEPT !.hasBody = TRUE, !.body = o]
NoQuery == <<>>

BodyAlice == [username |-> VStr(Text2.alice), email |-> VStr(Text4.alice_mail)]
BodyBob == [username |-> VStr(Text2.bob), email |-> VStr(Text5.bob_mail), age |-> VInt(25)]

\* The requests served to each example, the ones its docstrings try among them.
Requests2 ==
    << Request("GET", <<Text2.products, Text2.latest>>, NoQuery),
       Request("GET", <<Text2.products, Text2.n5>>, NoQuery),
       Request("GET", <<Text2.users, Text2.n123>>, NoQuery),
       Request("GET", <<Text2.users, Text4.abc>>, NoQuery),
       Request("GET", <<Text2.users, Text2.alice, Text2.profile>>, NoQuery),
       Request("GET", <<Text2.items, Text2.n5, Text2.details>>, NoQuery),
       Request("GET", <<>>, NoQuery),
       Request("GET", <<Text3.search>>, NoQuery),
       Request("POST", <<Text2.products, Text2.latest>>, NoQuery) >>

Requests3 ==
    << Request("GET", <<Text3.search>>, [q |-> Text3.python]),
       Request("GET", <<Text3.search>>, [q |-> Text3.python, limit |-> Text2.n5]),
       Request("GET", <<Text3.search>>, NoQuery),
       Request("GET", <<Text3.search>>, [limit |-> Text2.n5]),
       Request("GET", <<Text3.search>>, [q |-> Text3.python, limit |-> Text4.abc]),
       Request("GET", <<Text2.items>>, NoQuery),
       Request("GET", <<Text2.items>>, [skip |-> Text2.n5]),
       Request("GET", <<Text2.items>>, [skip |-> Text2.n5, limit |-> Text3.n20, sort_by |-> Text3.price]),
       Request("GET", <<Text3.filter>>, NoQuery),
       Request("GET", <<Text3.filter>>, [min_price |-> Text3.nm5]),
       Request("GET", <<Text3.filter>>, [in_stock |-> Text3.false, category |-> Text3.price]),
       Request("GET", <<Text3.compare>>, NoQuery),
       Request("GET", <<Text3.compare>>, [path_id |-> Text3.custom]),
       Request("GET", <<Text3.compare, Text2.n123>>, NoQuery) >>

Requests4 ==
    << WithBody(Request("POST", <<Text4.mixed, Text2.n123>>, [token |-> Text4.abc]), BodyAlice),
       WithBody(Request("POST", <<Text4.mixed>>, [user_id |-> Text2.n123, token |-> Text4.abc]),
                BodyAlice),
       WithBody(Request("POST", <<Text4.mixed>>, [token |-> Text4.abc]), BodyAlice),
       WithBody(Request("POST", <<Text4.mixed>>, [user_id |-> Text2.n123]), BodyBob),
       WithBody(Request("POST", <<Text4.simple>>, NoQuery),
                [name |-> VStr(Text2.alice), age |-> VInt(25)]),
       Request("POST", <<Text4.simple>>, [name |-> Text2.alice, age |-> Text2.n5]),
       WithBody(Request("POST", <<Text2.users>>, NoQuery), BodyBob),
       WithBody(Request("POST", <<Text2.users>>, NoQuery), [age |-> VInt(150)]),
       WithBody(Request("POST", <<Text2.users>>, NoQuery),
                [username |-> VInt(5), age |-> VInt(150)]),
       WithBody(Request("POST", <<Text2.products>>, NoQuery),
                [name |-> VStr(<<>>), price |-> VStr(Text4.abc)]),
       WithBody(Request("POST", <<Text2.products>>, NoQuery),
                [name |-> VStr(Text3.price), price |-> VInt(20)]) >>

Requests5 ==
    << WithBody(Request("POST", <<Text5.register>>, NoQuery),
                [username |-> VStr(Text2.alice), email |-> VStr(Text4.alice_mail),
                 password |-> VStr(Text5.secret123)]),
       WithBody(Request("POST", <<Text5.register>>, NoQuery), BodyAlice),
       Request("GET", <<Text2.users, Text5.n7>>, NoQuery),
       Request("GET", <<Text2.users, Text5.n7, Text2.details>>, NoQuery),
       Request("GET", <<Text5.users_list>>, NoQuery) >>

Requests6 ==
    << WithBody(Request("POST", <<Text2.items>>, NoQuery),
                [name |-> VStr(Text6.mouse), price |-> VInt(2999)]),
       Request("DELETE", <<Text2.items, Text6.n1>>, NoQuery),
       Request("DELETE", <<Text2.items, Text6.n2>>, NoQuery),
       Request("DELETE", <<Text2.items, Text6.n3>>, NoQuery),
       Request("GET", <<Text2.items, Text6.n1>>, NoQuery) >>

Requests7 ==
    << Request("GET", <<Text7.time>>, NoQuery),
       Request("GET", <<Text7.public>>, NoQuery),
       Request("GET", <<Text7.protected>>, NoQuery),
       Request("GET", <<Text7.protected>>, [token |-> Text7.wrong]),
       Request("GET", <<Text7.protected>>, [token |-> <<>>]),
       Request("GET", <<Text7.protected>>, [token |-> Text7.secret_token]),
       Request("GET", <<Text7.me>>, NoQuery),
       Request("GET", <<Text7.me>>, [token |-> Text7.abc123]),
       Request("GET", <<Text2.items>>, NoQuery),
       Request("GET", <<Text2.items>>, [skip |-> Text2.n5, limit |-> Text3.n20]),
       Request("GET", <<Text2.items>>, [skip |-> Text4.abc]),
       Request("GET", <<Text2.users>>, NoQuery) >>

Requests8 ==
    << WithBody(Request("POST", <<Text2.users>>, NoQuery), BodyAlice),
       WithBody(Request("POST", <<Text2.users>>, NoQuery), BodyBob),
       WithBody(Request("POST", <<Text2.users>>, NoQuery),
                [username |-> VStr(Text2.alice), email |-> VStr(Text5.bob_mail)]),
       WithBody(Request("POST", <<Text2.users>>, NoQuery),
                [username |-> VStr(Text2.bob), email |-> VStr(Text4.alice_mail)]),
       WithBody(Request("POST", <<Text2.users>>, NoQuery), [username |-> VStr(Text2.alice)]),
       Request("GET", <<Text2.users, <<"1">>>>, NoQuery),
       Request("GET", <<Text2.users, <<"2">>>>, NoQuery),
       Request("GET", <<Text2.users, Text4.abc>>, NoQuery),
       Request("GET", <<Text2.users, Text2.username, Text2.alice>>, NoQuery),
       WithBody(Request("PUT", <<Text2.users, <<"1">>>>, NoQuery), BodyBob),
       WithBody(Request("PUT", <<Text2.users, <<"2">>>>, NoQuery), BodyAlice),
       Request("DELETE", <<Text2.users, <<"1">>>>, NoQuery),
       Request("GET", <<Text2.users>>, [skip |-> <<"1">>]),
       Request("GET", <<Text8.stats>>, NoQuery),
       Request("POST", <<Text8.reset_database>>, NoQuery) >>

RequestsChain == << Request("GET", <<t_chain>>, NoQuery) >>

RequestsOf(a) ==
    CASE a = "main2" -> Requests2
      [] a = "main3" -> Requests3
      [] a = "main4" -> Requests4
      [] a = "main5" -> Requests5
      [] a = "main6" -> Requests6
      [] a = "main7" -> Requests7
      [] a = "main8" -> Requests8
      [] OTHER -> RequestsChain

\* ---------------------------------------------------------- the applications
Apps == {"main2", "main3", "main4", "main5", "main6", "main7", "main8", "chain"}
SourceRoutes(a) ==
    CASE a = "main2" -> Routes2
      [] a = "main3" -> Routes3
      [] a = "main4" -> Routes4
      [] a = "main5" -> Routes5
      [] a = "main6" -> Routes6
      [] a = "main7" -> Routes7
      [] a = "main8" -> Routes8
      [] OTHER -> RoutesChain

\* A table with the routes at i and i + 1 registered the other way round.
Swapped(t, i) ==
    [k \in 1..Len(t) |-> IF k = i THEN t[i + 1] ELSE IF k = i + 1 THEN t[i] ELSE t[k]]

\* The registration orders considered: the source's, and for the example on
\* route order (main2) also each order with two neighbouring decorators
\* exchanged, numbered from 0 (the source's order).
Orders(a) == IF a = "main2" THEN 0..(Len(Routes2) - 1) ELSE {0}
TableOf(a, o) == IF o = 0 THEN SourceRoutes(a) ELSE Swapped(SourceRoutes(a), o)

\* The users table outlives the application (create_all keeps the rows of an
\* existing table): the tables considered at startup are the empty one and
\* tables that earlier create_user and delete_user requests left behind.
UserRow(id, username, email) ==
    [id |-> VInt(id), username |-> VStr(username), email |-> VStr(email),
     full_name |-> VNone, is_active |-> VBool(TRUE), created_at |-> VInt(0),
     updated_at |-> VInt(0)]
StoredUsers ==
    { EmptyStore,
      [users |-> <<UserRow(1, Text2.alice, Text4.alice_mail)>>, nextId |-> 2],
      [users |-> <<UserRow(1, Text2.alice, Text4.alice_mail),
                   UserRow(2, Text2.bob, Text5.bob_mail)>>, nextId |-> 3],
      [users |-> <<UserRow(2, Text2.bob, Text5.bob_mail)>>, nextId |-> 3] }
StartStores(a) ==
    CASE a = "main8" -> StoredUsers
      [] a = "main6" -> {ItemStore}
      [] OTHER -> {EmptyStore}

AllProviders ==
    {"get_current_time", "get_user_agent", "verify_token", "get_database",
     "get_current_user", "pagination", "get_db", "dep_a", "dep_b", "dep_c"}

MaxRequests == 2
\* The status-code example is followed further: its three items can be
\* deleted and a fourth request sent.
MaxItemRequests == 4
RequestsAllowed(a) == IF a = "main6" THEN MaxItemRequests ELSE MaxRequests

\* ------------------------------------------------------------------ state
VARIABLES
    app,       \* the example application that is running
    table,     \* its route table, in registration order
    nreq,      \* the number of requests received so far
    req,       \* the request being served
    pc,        \* where the request stands
    route,     \* what the dispatcher found for it
    plan,      \* the provider visits still to make
    cache,     \* the request's dependency cache: provider -> value
    failed,    \* the providers whose inputs did not validate
    errors,    \* the validation errors collected so far
    args,      \* the handler's own inputs, resolved
    td,        \* the pending teardowns, the next to run first
    log,       \* what happened in this request, in order
    exc,       \* the exception travelling through the request, "" for none
    status,    \* the response status, 0 while there is none
    detail,    \* the detail of an error response
    response,  \* the response body
    invoked,   \* per provider, how often it was invoked since startup
    store,     \* the data of the application: the users table, or fake_items
    prev,      \* the dependency cache of the request before
    sessions   \* the database sessions of requests served side by side

vars == <<app, table, nreq, req, pc, route, plan, cache, failed, errors, args, td, log,
          exc, status, detail, response, invoked, store, prev, sessions>>

\* The requests to the database example that are served side by side (each
\* handler runs on a worker thread with a session of its own from get_db), as
\* the statements their handlers send to the database.
MaxSessions == 2
Sessions == 1..MaxSessions
Idle ==
    [pc |-> "idle", op |-> "", id |-> 0, body |-> <<>>, loaded |-> <<>>, ids |-> {},
     status |-> 0, detail |-> ""]
Work(op, id, body) == [op |-> op, id |-> id, body |-> body]
NewUser(name, mail) == Validated(UserCreate, [username |-> VStr(name), email |-> VStr(mail)])
ConcurrentWork ==
    << Work("create_user", 0, NewUser(Text2.alice, Text4.alice_mail)),
       Work("create_user", 0, NewUser(Text2.bob, Text5.bob_mail)),
       Work("create_user", 0, NewUser(Text2.alice, Text5.bob_mail)),
       Work("update_user", 1, NewUser(Text2.bob, Text5.bob_mail)),
       Work("update_user", 2, NewUser(Text2.alice, Text4.alice_mail)),
       Work("delete_user", 1, <<>>),
       Work("reset_database", 0, <<>>) >>
FirstStatement(op) ==
    CASE op = "create_user" -> "query_username"
      [] op = "reset_database" -> "delete_all"
      [] OTHER -> "query_id"

NoRoute == [kind |-> "none", idx |-> 0]
NoRequest == Request("", <<>>, NoQuery)
Event(e, f, by, v) == [e |-> e, f |-> f, by |-> by, v |-> v]

Init ==
    /\ app \in Apps
    /\ \E o \in Orders(app) : table = TableOf(app, o)
    /\ nreq = 0
    /\ req = NoRequest
    /\ pc = "idle"
    /\ route = NoRoute
    /\ plan = <<>>
    /\ cache = <<>>
    /\ failed = {}
    /\ errors = {}
    /\ args = <<>>
    /\ td = <<>>
    /\ log = <<>>
    /\ exc = ""
    /\ status = 0
    /\ detail = ""
    /\ response = RNone
    /\ invoked = [p \in AllProviders |-> 0]
    /\ store \in StartStores(app)
    /\ prev = <<>>
    /\ sessions = [i \in Sessions |-> Idle]

Handler == table[route.idx].handler
Pattern == table[route.idx].pattern
PP == PathParams(Pattern, req.path)

\* A request arrives: a fresh context, with an empty cache and no teardowns.
Receive ==
    /\ pc \in {"idle", "done"}
    /\ nreq < RequestsAllowed(app)
    /\ \E i \in 1..Len(RequestsOf(app)) : req' = RequestsOf(app)[i]
    /\ nreq' = nreq + 1
    /\ pc' = "dispatch"
    /\ prev' = cache
    /\ route' = NoRoute /\ plan' = <<>> /\ cache' = <<>> /\ failed' = {} /\ errors' = {}
    /\ args' = <<>> /\ td' = <<>> /\ log' = <<>> /\ exc' = "" /\ status' = 0
    /\ detail' = "" /\ response' = RNone
    /\ UNCHANGED <<app, table, invoked, store>>
    /\ UNCHANGED sessions

\* The router picks the route; without one the request ends in 404 or 405.
DispatchStep ==
    /\ pc = "dispatch"
    /\ route' = Dispatch(table, req.method, req.path)
    /\ IF route'.kind = "route"
          THEN /\ plan' = Plan(table[route'.idx].handler)
               /\ pc' = "resolve"
               /\ status' = 0
          ELSE /\ plan' = <<>>
               /\ pc' = "teardown"
               /\ status' = IF route'.kind = "method" THEN 405 ELSE 404
    /\ UNCHANGED <<app, table, nreq, req, cache, failed, errors, args, td, log, exc,
                   detail, response, invoked, store, prev>>
    /\ UNCHANGED sessions

\* Faulty variant: The release registered behind the pending ones.
RegisterTeardownLast(list, p) == Append(list, p)

\* A provider with yield registers its release in front of the pending ones.
RegisterTeardown(list, p) == <<p>> \o list

\* Faulty variant: A dependency declared with use_cache = False.
NeverCached(p, c) == FALSE

\* A provider already resolved in this request is taken from the cache.
Cached(p, c) == p \in DOMAIN c

\* The next visit of the plan: a cached provider is not invoked again; a
\* provider with invalid inputs, or below a failed one, is not invoked at all;
\* a provider that raises ends the resolution.
ResolveDep ==
    /\ pc = "resolve"
    /\ plan # <<>>
    /\ LET p == Head(plan).provider
           by == Head(plan).consumer
           own == ResolveOwn(p, Pattern, req, PP)
           below == \E k \in 1..Len(DepsOf(p)) : DepsOf(p)[k].dep \in failed
           n == invoked[p] + 1
           r == ProviderCall(p, own.values, n)
       IN  /\ plan' = Tail(plan)
           /\ IF Cached(p, cache) THEN
                 /\ log' = Append(log, Event("cached", p, by, cache[p]))
                 /\ UNCHANGED <<cache, failed, errors, td, exc, status, detail, invoked, pc>>
              ELSE IF p \in failed \/ own.errors # {} \/ below THEN
                 /\ failed' = failed \cup {p}
                 /\ errors' = errors \cup own.errors
                 /\ UNCHANGED <<cache, td, log, exc, status, detail, invoked, pc>>
              ELSE IF r.status # 0 THEN
                 /\ invoked' = [invoked EXCEPT ![p] = n]
                 /\ log' = Append(log, Event("raised", p, by, VNone))
                 /\ exc' = "http"
                 /\ status' = r.status
                 /\ detail' = r.detail
                 /\ pc' = "teardown"
                 /\ UNCHANGED <<cache, failed, errors, td>>
              ELSE
                 /\ invoked' = [invoked EXCEPT ![p] = n]
                 /\ cache' = (p :> r.val) @@ cache
                 /\ log' = Append(log, Event("call", p, by, r.val))
                 /\ td' = IF ProviderOf(p).scoped THEN RegisterTeardown(td, p) ELSE td
                 /\ UNCHANGED <<failed, errors, exc, status, detail, pc>>
    /\ UNCHANGED <<app, table, nreq, req, route, args, response, store, prev>>
    /\ UNCHANGED sessions

\* With every provider visited, the handler's own inputs are resolved; any
\* validation error, of a provider or of the handler, ends the request in 422.
ResolveArgs ==
    /\ pc = "resolve"
    /\ plan = <<>>
    /\ LET own == ResolveOwn(Handler, Pattern, req, PP)
           all == errors \cup own.errors
       IN  IF all # {}
              THEN /\ errors' = all
                   /\ status' = 422
                   /\ pc' = "teardown"
                   /\ args' = args
              ELSE /\ args' = own.values
                   /\ pc' = "handler"
                   /\ UNCHANGED <<errors, status>>
    /\ UNCHANGED <<app, table, nreq, req, route, plan, cache, failed, td, log, exc,
                   detail, response, invoked, store, prev>>
    /\ UNCHANGED sessions

\* The dependencies of the handler, by parameter name.
DepValues(h) ==
    LET ds == DepsOf(h)
    IN  [n \in {ds[i].name : i \in 1..Len(ds)} |->
            cache[ds[CHOOSE i \in 1..Len(ds) : ds[i].name = n].dep]]

\* The handler runs; an HTTPException or an uncaught error ends the request.
CallHandler ==
    /\ pc = "handler"
    /\ LET r == HandlerCall(Handler, args, DepValues(Handler), store, nreq)
       IN  /\ store' = r.store
           /\ log' = Append(log, Event("handler", Handler, "", VNone))
           /\ IF r.status # 0
                 THEN /\ status' = r.status
                      /\ detail' = r.detail
                      /\ exc' = IF r.status = 500 THEN "error" ELSE "http"
                      /\ pc' = "teardown"
                      /\ response' = response
                 ELSE /\ response' = r.body
                      /\ pc' = "shape"
                      /\ UNCHANGED <<status, detail, exc>>
    /\ UNCHANGED <<app, table, nreq, req, route, plan, cache, failed, errors, args, td,
                   invoked, prev>>
    /\ UNCHANGED sessions

\* The result is filtered by the route's response model.
ShapeStep ==
    /\ pc = "shape"
    /\ LET sh == Shape(ResponseModel(Handler), response)
       IN  /\ response' = sh.body
           /\ status' = IF sh.ok THEN SuccessStatus(Handler) ELSE 500
           /\ exc' = IF sh.ok THEN "" ELSE "error"
    /\ pc' = "teardown"
    /\ UNCHANGED <<app, table, nreq, req, route, plan, cache, failed, errors, args, td,
                   log, detail, invoked, store, prev>>
    /\ UNCHANGED sessions

\* The code after the yield runs when the provider is resumed normally, and
\* when an exception is thrown in at the yield only if it stands in a finally.
Releases(p, e) == ProviderOf(p).cleanup \/ e = ""

\* The pending teardowns run, the first of the list first.
TeardownStep ==
    /\ pc = "teardown"
    /\ td # <<>>
    /\ td' = Tail(td)
    /\ log' = IF Releases(Head(td), exc)
                 THEN Append(log, Event("release", Head(td), "", VNone))
                 ELSE log
    /\ UNCHANGED <<app, table, nreq, req, pc, route, plan, cache, failed, errors, args,
                   exc, status, detail, response, invoked, store, prev>>
    /\ UNCHANGED sessions

Finish ==
    /\ pc = "teardown"
    /\ td = <<>>
    /\ pc' = "done"
    /\ UNCHANGED <<app, table, nreq, req, route, plan, cache, failed, errors, args, td,
                   log, exc, status, detail, response, invoked, store, prev>>
    /\ UNCHANGED sessions

\* The client goes away while the request is being served.
Abort ==
    /\ pc \in {"resolve", "handler", "shape"}
    /\ exc' = "cancelled"
    /\ status' = 499
    /\ pc' = "teardown"
    /\ UNCHANGED <<app, table, nreq, req, route, plan, cache, failed, errors, args, td,
                   log, detail, response, invoked, store, prev>>
    /\ UNCHANGED sessions

Serve ==
    \/ DispatchStep
    \/ ResolveDep
    \/ ResolveArgs
    \/ CallHandler
    \/ ShapeStep
    \/ TeardownStep
    \/ Finish

Next ==
    \/ Receive
    \/ Serve
    \/ Abort

Spec == Init /\ [][Next]_vars

\* A request that is being served keeps being served.
FairSpec == Spec /\ WF_vars(Serve)

\* ------------------------------------------------- requests side by side
\* What the request pipeline keeps; the sessions leave it alone.
pipeline == <<app, table, nreq, req, pc, route, plan, cache, failed, errors, args, td, log,
              exc, status, detail, response, invoked, prev>>

\* Faulty variant: a users table without its unique indexes.
NoUniqueIndex(users, row) == FALSE

\* The unique indexes of username and email refuse a row that shares either
\* with another row.
UniqueClash(users, row) ==
    \E k \in 1..Len(users) :
        /\ users[k]["id"] # row["id"]
        /\ \/ users[k]["username"] = row["username"]
           \/ users[k]["email"] = row["email"]

\* The session's request has its answer; what is left is to close the session.
Answer(s, st, why) == [s EXCEPT !.pc = "close", !.status = st, !.detail = why]
SessionAt(i, where) == sessions[i].pc = where
Becomes(i, s) == sessions' = [sessions EXCEPT ![i] = s]

\* get_db opens a session for a request that has arrived.
OpenSession ==
    \E i \in Sessions, w \in 1..Len(ConcurrentWork) :
        /\ SessionAt(i, "idle")
        /\ Becomes(i, [Idle EXCEPT !.pc = FirstStatement(ConcurrentWork[w].op),
                                   !.op = ConcurrentWork[w].op,
                                   !.id = ConcurrentWork[w].id,
                                   !.body = ConcurrentWork[w].body])
        /\ UNCHANGED <<store, pipeline>>

\* create_user: is the username taken?
QueryUsername ==
    \E i \in Sessions :
        /\ SessionAt(i, "query_username")
        /\ IF RowsWhere(store, "username", sessions[i].body["username"]) # <<>>
              THEN Becomes(i, Answer(sessions[i], 400, "username"))
              ELSE Becomes(i, [sessions[i] EXCEPT !.pc = "query_email"])
        /\ UNCHANGED <<store, pipeline>>

\* create_user: is the email registered?
QueryEmail ==
    \E i \in Sessions :
        /\ SessionAt(i, "query_email")
        /\ IF RowsWhere(store, "email", sessions[i].body["email"]) # <<>>
              THEN Becomes(i, Answer(sessions[i], 400, "email"))
              ELSE Becomes(i, [sessions[i] EXCEPT !.pc = "commit"])
        /\ UNCHANGED <<store, pipeline>>

\* update_user, delete_user: the row with the id, or 404.
QueryId ==
    \E i \in Sessions :
        /\ SessionAt(i, "query_id")
        /\ LET found == RowsWhere(store, "id", VInt(sessions[i].id))
           IN  IF found = <<>>
                 THEN Becomes(i, Answer(sessions[i], 404, "id"))
                 ELSE Becomes(i, [sessions[i] EXCEPT !.pc = "commit", !.loaded = found[1]])
        /\ UNCHANGED <<store, pipeline>>

\* create_user: db.add and db.commit. The INSERT takes the next id of the
\* sequence; a clash with a unique index raises IntegrityError, which nothing
\* catches.
CommitInsert ==
    \E i \in Sessions :
        /\ SessionAt(i, "commit") /\ sessions[i].op = "create_user"
        /\ LET u == sessions[i].body
               row == [id |-> VInt(store.nextId), username |-> u["username"],
                       email |-> u["email"], full_name |-> u["full_name"],
                       is_active |-> u["is_active"], created_at |-> VInt(1),
                       updated_at |-> VInt(1)]
           IN  IF UniqueClash(store.users, row)
                 THEN /\ Becomes(i, Answer(sessions[i], 500, "integrity"))
                      /\ store' = [store EXCEPT !.nextId = @ + 1]
                 ELSE /\ Becomes(i, [sessions[i] EXCEPT !.pc = "refresh", !.id = store.nextId])
                      /\ store' = [users |-> Append(store.users, row),
                                   nextId |-> store.nextId + 1]
        /\ UNCHANGED pipeline

\* update_user: db.commit. The UPDATE sets the columns whose value differs
\* from the loaded row; it raises StaleDataError when the row is gone and
\* IntegrityError on a clash with a unique index, and nothing catches either.
CommitUpdate ==
    \E i \in Sessions :
        /\ SessionAt(i, "commit") /\ sessions[i].op = "update_user"
        /\ LET u == sessions[i].body
               changed == {c \in DOMAIN u : u[c] # sessions[i].loaded[c]}
               current == RowsWhere(store, "id", VInt(sessions[i].id))
               row == [c \in DOMAIN current[1] |->
                          IF c \in changed THEN u[c]
                          ELSE IF c = "updated_at" THEN VInt(1)
                          ELSE current[1][c]]
           IN  IF changed = {}
                 THEN Becomes(i, [sessions[i] EXCEPT !.pc = "refresh"]) /\ store' = store
               ELSE IF current = <<>>
                 THEN Becomes(i, Answer(sessions[i], 500, "stale")) /\ store' = store
               ELSE IF UniqueClash(store.users, row)
                 THEN Becomes(i, Answer(sessions[i], 500, "integrity")) /\ store' = store
               ELSE /\ Becomes(i, [sessions[i] EXCEPT !.pc = "refresh"])
                    /\ store' = [store EXCEPT !.users = [k \in 1..Len(store.users) |->
                          IF store.users[k]["id"] = VInt(sessions[i].id) THEN row
                          ELSE store.users[k]]]
        /\ UNCHANGED pipeline

\* delete_user: db.delete and db.commit.
CommitDelete ==
    \E i \in Sessions :
        /\ SessionAt(i, "commit") /\ sessions[i].op = "delete_user"
        /\ Becomes(i, Answer(sessions[i], 204, ""))
        /\ store' = [store EXCEPT !.users = Without(store, VInt(sessions[i].id))]
        /\ UNCHANGED pipeline

\* reset_database: the bulk DELETE, on the rows committed when it runs.
DeleteAll ==
    \E i \in Sessions :
        /\ SessionAt(i, "delete_all")
        /\ Becomes(i, [sessions[i] EXCEPT !.pc = "commit",
                          !.ids = {store.users[k]["id"] : k \in 1..Len(store.users)}])
        /\ UNCHANGED <<store, pipeline>>

\* reset_database: db.commit.
CommitReset ==
    \E i \in Sessions :
        /\ SessionAt(i, "commit") /\ sessions[i].op = "reset_database"
        /\ Becomes(i, Answer(sessions[i], 200, ""))
        /\ store' = [store EXCEPT !.users =
                        SelectSeq(store.users, LAMBDA r : r["id"] \notin sessions[i].ids)]
        /\ UNCHANGED pipeline

\* create_user, update_user: db.refresh reads the row again, and raises when
\* it is gone.
Refresh ==
    \E i \in Sessions :
        /\ SessionAt(i, "refresh")
        /\ IF RowsWhere(store, "id", VInt(sessions[i].id)) = <<>>
              THEN Becomes(i, Answer(sessions[i], 500, "refresh"))
              ELSE Becomes(i, Answer(sessions[i],
                                     IF sessions[i].op = "create_user" THEN 201 ELSE 200, ""))
        /\ UNCHANGED <<store, pipeline>>

\* get_db closes the session, whatever the handler did.
CloseSession ==
    \E i \in Sessions :
        /\ SessionAt(i, "close")
        /\ Becomes(i, [sessions[i] EXCEPT !.pc = "done"])
        /\ UNCHANGED <<store, pipeline>>

ConcurrentInit == Init /\ app = "main8"

ConcurrentNext ==
    \/ OpenSession
    \/ QueryUsername
    \/ QueryEmail
    \/ QueryId
    \/ CommitInsert
    \/ CommitUpdate
    \/ CommitDelete
    \/ DeleteAll
    \/ CommitReset
    \/ Refresh
    \/ CloseSession

ConcurrentSpec == ConcurrentInit /\ [][ConcurrentNext]_vars

\* ------------------------------------------------------------- properties
IndexOf(h) == CHOOSE i \in 1..Len(table) : table[i].handler = h
Dispatched == route.kind = "route"
At(e, f) == {i \in 1..Len(log) : log[i].e = e /\ log[i].f = f}
\* The invocations of a provider in this request, returned or raised.
Calls(p) == Cardinality(At("call", p) \cup At("raised", p))
ReleaseCount(p) == Cardinality(At("release", p))
HandlerRan == \E i \in 1..Len(log) : log[i].e = "handler"
Scoped == {p \in AllProviders : ProviderOf(p).scoped}
\* The providers with yield in the order acquired, and in the order released.
Acquired == SelectSeq(log, LAMBDA ev : ev.e = "call" /\ ev.f \in Scoped)
Released == SelectSeq(log, LAMBDA ev : ev.e = "release")
NamesOf(evs) == [i \in 1..Len(evs) |-> evs[i].f]
Reverse(q) == [i \in 1..Len(q) |-> q[Len(q) + 1 - i]]
LatestPath == <<Text2.products, Text2.latest>>

\* C1: dispatch is first-match in registration order: GET /products/latest goes
\* to the literal route when it is registered before /products/{product_id},
\* and to the variable route when that one is registered first; in general the
\* chosen route is the first of the table that matches.
C1_FirstMatchInOrder ==
    Dispatched =>
        /\ \A j \in 1..Len(table) :
              (Match(table[j].pattern, req.path) /\ table[j].method = req.method)
                  => route.idx <= j
        /\ (app = "main2" /\ req.method = "GET" /\ req.path = LatestPath) =>
              /\ IndexOf("get_latest_products") < IndexOf("get_product")
                    => Handler = "get_latest_products"
              /\ IndexOf("get_product") < IndexOf("get_latest_products")
                    => Handler = "get_product"

\* C1 witness: the variable route registered first shadows the literal one.
C1_Witness ==
    /\ app = "main2" /\ Dispatched /\ req.path = LatestPath
    /\ IndexOf("get_product") < IndexOf("get_latest_products")
    /\ Handler = "get_product"

\* C2: within one request a provider is invoked at most once; every consumer
\* receives the same value; GET /me invokes get_database exactly once for
\* get_current_user and get_my_profile, and not with the value of the request
\* before.
C2_AtMostOncePerRequest ==
    /\ \A p \in AllProviders :
          /\ Calls(p) <= 1
          /\ \A i, j \in At("call", p) \cup At("cached", p) : log[i].v = log[j].v
    /\ (pc = "done" /\ Dispatched /\ status = 200 /\ Handler = "get_my_profile") =>
          /\ Calls("get_database") = 1
          /\ \E i \in At("call", "get_database") : log[i].by = "get_current_user"
          /\ \E i \in At("cached", "get_database") : log[i].by = "get_my_profile"
          /\ response.o["db"] = cache["get_database"]
          /\ "get_database" \in DOMAIN prev => prev["get_database"] # cache["get_database"]

\* C2 witness: a second GET /me, served with a connection of its own.
C2_Witness ==
    /\ app = "main7" /\ pc = "done" /\ Dispatched /\ status = 200
    /\ Handler = "get_my_profile"
    /\ "get_database" \in DOMAIN prev
    /\ \E i \in At("cached", "get_database") : log[i].by = "get_my_profile"

\* C3: every resource a provider with yield acquired for a request is released
\* exactly once before the request ends, however it ends: the handler returns,
\* the handler or a provider raises, validation fails, the client goes away.
C3_ReleasedOnce ==
    /\ [](\A p \in Scoped : /\ ReleaseCount(p) <= Calls(p)
                            /\ Calls(p) <= 1
                            /\ pc = "done" => ReleaseCount(p) = Calls(p))
    /\ (Len(Acquired) > 0) ~> (pc = "done" /\ Len(Released) = Len(Acquired))

\* C3 witness: create_user raised 400 for a duplicate and its session was closed.
C3_Witness ==
    /\ app = "main8" /\ pc = "done" /\ status = 400 /\ exc = "http"
    /\ Calls("get_db") = 1 /\ ReleaseCount("get_db") = 1

\* C4: teardowns run in the reverse of the acquisition order, so that no
\* resource is released before every provider and handler that received it
\* has run.
C4_ReverseAcquisitionOrder ==
    /\ \A i, j \in 1..Len(Acquired) : \A k, m \in 1..Len(Released) :
          (i < j /\ Released[k].f = Acquired[i].f /\ Released[m].f = Acquired[j].f)
              => m < k
    /\ pc = "done" => NamesOf(Released) = Reverse(NamesOf(Acquired))
    /\ \A p \in Scoped : \A k \in At("release", p) : \A m \in 1..Len(log) :
          (m > k /\ log[m].e \in {"call", "raised", "handler"})
              => ~\E c \in At("call", p) \cup At("cached", p) : log[c].by = log[m].f

\* C4 witness: two resources acquired one after the other, the later released first.
C4_Witness ==
    /\ Len(Acquired) >= 2
    /\ Len(Released) >= 2
    /\ Released[1].f = Acquired[Len(Acquired)].f
    /\ Released[2].f = Acquired[Len(Acquired) - 1].f

ChainServed == app = "chain" /\ pc = "done" /\ status = 200

\* C5 as stated: for the chain A -> B -> C, with C resolved first, the
\* teardowns are observed in the order C, B, A.
C5_AsStated == ChainServed => NamesOf(Released) = <<"dep_c", "dep_b", "dep_a">>

\* C5, amended: for the chain A -> B -> C, with C resolved first, then B,
\* then A, the teardowns are observed in the order A, B, C.
C5_TeardownABC ==
    ChainServed =>
        /\ NamesOf(Acquired) = <<"dep_c", "dep_b", "dep_a">>
        /\ NamesOf(Released) = <<"dep_a", "dep_b", "dep_c">>

\* C5 witness: the chain served to its end, all three resources released.
C5_Witness == ChainServed /\ Len(Released) = 3 /\ HandlerRan

BadToken == "token" \notin DOMAIN req.query \/ req.query["token"] # Text7.secret_token
Protected == app = "main7" /\ Dispatched /\ Handler = "protected_endpoint"

\* C6: when verify_token refuses the token (missing, empty or not the secret),
\* protected_endpoint is never invoked, the response is the provider's 401, and
\* whatever was acquired for the request is released before it ends.
C6_AuthFailureShortCircuits ==
    /\ (Protected /\ BadToken) =>
          /\ ~HandlerRan
          /\ pc \notin {"handler", "shape"}
          /\ (pc = "done" /\ exc # "cancelled") => (status = 401 /\ exc = "http")
    /\ (\E p \in AllProviders : At("raised", p) # {}) =>
          /\ ~HandlerRan
          /\ status \in {401, 499}
          /\ pc \in {"teardown", "done"}
          /\ pc = "done" => \A p \in Scoped : ReleaseCount(p) = Calls(p)

\* C6 witness: /protected?token=wrong answered 401 "Invalid token".
C6_Witness ==
    /\ Protected /\ pc = "done" /\ status = 401 /\ detail = "Invalid token"
    /\ At("raised", "verify_token") # {} /\ ~HandlerRan

Shaped ==
    /\ Dispatched /\ pc \in {"teardown", "done"} /\ status \in {200, 201}
    /\ ResponseModel(Handler).schema # ""
Declared == FieldNames(SchemaOf(ResponseModel(Handler).schema))

\* C7: a response sent under a response model holds exactly the fields the
\* model declares, for one object and for every entry of a list; password and
\* credit_card never appear.
C7_ExactlyDeclaredFields ==
    Shaped =>
        IF ResponseModel(Handler).list
        THEN /\ response.k = "list"
             /\ \A i \in 1..Len(response.l) : DOMAIN response.l[i] = Declared
        ELSE /\ response.k = "obj"
             /\ DOMAIN response.o = Declared
             /\ {"password", "credit_card"} \cap DOMAIN response.o = {}

\* C7 witness: GET /users/{user_id}, whose handler returns password and credit_card.
C7_Witness ==
    /\ app = "main5" /\ Shaped /\ Handler = "get_user5" /\ pc = "done"
    /\ {"password", "credit_card"} \subseteq DOMAIN get_user5(args).o
    /\ DOMAIN response.o = {"id", "username", "email", "is_active"}

\* The handler's own inputs have been resolved.
Resolved == Dispatched /\ (pc \in {"handler", "shape"} \/ HandlerRan)
\* The request ended without an exception: served, or refused as invalid.
Ended == Dispatched /\ pc = "done" /\ exc = ""
OwnOf(f) == {ParamsOf(f)[i] : i \in OwnParams(f)}
QueryParams(f) == {p \in OwnOf(f) : Classify(Pattern, p) = "query"}
OmittedQuery(p) == p.name \notin DOMAIN req.query

\* C8: an omitted query parameter with a default resolves to exactly that
\* default (GET /search without limit: limit = 10; GET /items without
\* parameters: skip = 0, limit = 10, sort_by = None); an omitted one without a
\* default fails validation with an error naming it, and the handler is not
\* invoked (GET /search without q).
C8_DefaultOrMissing ==
    /\ Resolved => \A p \in QueryParams(Handler) :
          (OmittedQuery(p) /\ p.hasDefault) => args[p.name] = p.default
    /\ Ended => \A p \in QueryParams(Handler) :
          /\ (OmittedQuery(p) /\ ~p.hasDefault) =>
                /\ status = 422
                /\ <<"query", p.name, "missing">> \in errors
                /\ ~HandlerRan
          /\ (OmittedQuery(p) /\ p.hasDefault) =>
                \A e \in errors : ~(e[1] = "query" /\ e[2] = p.name)
    /\ (app = "main3" /\ Resolved /\ Handler = "search" /\ "limit" \notin DOMAIN req.query)
          => args["limit"] = VInt(10)
    /\ (app = "main3" /\ Resolved /\ Handler = "list_items" /\ DOMAIN req.query = {})
          => args = [skip |-> VInt(0), limit |-> VInt(10), sort_by |-> VNone]
    /\ (app = "main3" /\ Ended /\ Handler = "search" /\ "q" \notin DOMAIN req.query)
          => (status = 422 /\ ~HandlerRan)

\* C8 witness: GET /search?q=python served with limit = 10.
C8_Witness ==
    /\ app = "main3" /\ Ended /\ Handler = "search" /\ status = 200
    /\ DOMAIN req.query = {"q"}
    /\ args["limit"] = VInt(10)

\* The rule of section 4.2: path by name, else body by type, else query.
RuleAsStated(pattern, p) ==
    IF p.name \in PathVars(pattern) THEN "path"
    ELSE IF p.type = "model" THEN "body"
    ELSE "query"

\* The rule with the explicit marker: an input declared with Body(...) is a
\* body parameter whatever its type.
RuleWithBodyMarker(pattern, p) ==
    IF p.name \in PathVars(pattern) THEN "path"
    ELSE IF p.type = "model" \/ p.marker = "Body" THEN "body"
    ELSE "query"

\* C9 as stated: every handler input that is not a dependency is a path
\* parameter by name, else a body parameter by its model type, else a query
\* parameter; a scalar is never a body parameter.
C9_AsStated ==
    Dispatched => \A p \in OwnOf(Handler) :
        /\ Classify(Pattern, p) = RuleAsStated(Pattern, p)
        /\ p.type # "model" => Classify(Pattern, p) # "body"

\* The inputs resolved for a route: the handler's and those of its providers.
InputsOf(h) == OwnOf(h) \cup UNION {OwnOf(Plan(h)[i].provider) : i \in 1..Len(Plan(h))}

\* Where the value of a resolved input of the handler was read.
ReadFrom(p, place) ==
    CASE place = "path" -> args[p.name] = Coerce(p.type, PP[p.name])
      [] place = "query" ->
            args[p.name] = IF OmittedQuery(p) THEN p.default
                           ELSE Coerce(p.type, req.query[p.name])
      [] place = "body" /\ p.type = "model" ->
            req.hasBody /\ args[p.name] = VModel(Validated(SchemaOf(p.schema), req.body))
      [] OTHER ->
            req.hasBody /\ args[p.name] = CoerceJson(p.type, req.body[p.name])

\* C9, amended: every handler input that is not a dependency is a path
\* parameter if its name is a variable segment of the route; else a body
\* parameter if its type is a model or it is declared with Body(...); else a
\* query parameter. Its value is read from that place, and a validation error
\* names that place.
C9_ClassifiedWithBodyMarker ==
    /\ Dispatched => \A p \in OwnOf(Handler) :
          Classify(Pattern, p) = RuleWithBodyMarker(Pattern, p)
    /\ Resolved => \A p \in OwnOf(Handler) :
          ReadFrom(p, RuleWithBodyMarker(Pattern, p))
    /\ Dispatched => \A e \in errors :
          e[1] \in {"path", "query"} =>
              \E p \in InputsOf(Handler) :
                  p.name = e[2] /\ RuleWithBodyMarker(Pattern, p) = e[1]

\* C9 witness: POST /simple, whose scalars name and age were read from the body.
C9_Witness ==
    /\ app = "main4" /\ Ended /\ Handler = "simple_body" /\ status = 200
    /\ req.hasBody /\ DOMAIN req.query = {}
    /\ args = [name |-> VStr(Text2.alice), age |-> VInt(25)]

\* C10 as documented: POST /mixed/123?token=abc with a valid User body is
\* dispatched to mixed_parameters with user_id = 123 from the path and
\* token = "abc" from the query string.
C10_MixedAsDocumented ==
    (app = "main4" /\ pc = "done" /\ exc # "cancelled"
        /\ req.path = <<Text4.mixed, Text2.n123>> /\ req.method = "POST") =>
        /\ Dispatched
        /\ Handler = "mixed_parameters"
        /\ args["user_id"] = VInt(123)
        /\ args["token"] = VStr(Text4.abc)

\* What the schema's declaration says of one field of a raw object: absent
\* though required, of the wrong type, or outside its constraints.
Present(f, o) == f.name \in DOMAIN o
Missing(f, o) == f.required /\ ~Present(f, o)
IllTyped(f, o) ==
    /\ Present(f, o)
    /\ IF o[f.name].t = "none" THEN ~f.nullable ELSE CoerceJson(f.type, o[f.name]).t = "bad"
OutOfBounds(f, o) ==
    /\ Present(f, o) /\ o[f.name].t # "none" /\ ~IllTyped(f, o)
    /\ Violates(f, f.type, CoerceJson(f.type, o[f.name]))
ExpectedErrors(schema, o) ==
    {<<"body", schema[i].name, "missing">> : i \in {j \in 1..Len(schema) : Missing(schema[j], o)}}
    \cup {<<"body", schema[i].name, "type">> : i \in {j \in 1..Len(schema) : IllTyped(schema[j], o)}}
    \cup {<<"body", schema[i].name, "constraint">> :
            i \in {j \in 1..Len(schema) : OutOfBounds(schema[j], o)}}
BodyValidated ==
    /\ app = "main4" /\ Ended /\ req.hasBody
    /\ Handler \in {"create_user4", "create_product"}
BodySchema == SchemaOf(ParamsOf(Handler)[1].schema)

\* C11: validation does not stop at the first error: the 422 response lists
\* one entry for every offending field of the body and none for a valid one;
\* a User body without username and email and with age 150 gives exactly three
\* entries; a field of the wrong type contributes its type error only, and the
\* other fields are still validated.
C11_ValidationAccumulates ==
    /\ BodyValidated =>
          /\ errors = ExpectedErrors(BodySchema, req.body)
          /\ \A e1, e2 \in errors : e1[2] = e2[2] => e1 = e2
          /\ errors # {} => (status = 422 /\ ~HandlerRan)
          /\ errors = {} => (status = 200 /\ HandlerRan)
    /\ (BodyValidated /\ Handler = "create_user4" /\ req.body = [age |-> VInt(150)]) =>
          errors = {<<"body", "username", "missing">>, <<"body", "email", "missing">>,
                    <<"body", "age", "constraint">>}
    /\ (BodyValidated /\ Handler = "create_user4" /\ "username" \in DOMAIN req.body
           /\ req.body["username"].t = "int") =>
          /\ <<"body", "username", "type">> \in errors
          /\ <<"body", "username", "constraint">> \notin errors
          /\ (<<"body", "age", "constraint">> \in errors) <=> (req.body["age"].n > 120)

\* C11 witness: the User body {age: 150} answered with its three field errors.
C11_Witness ==
    /\ BodyValidated /\ Handler = "create_user4" /\ req.body = [age |-> VInt(150)]
    /\ status = 422 /\ Cardinality(errors) = 3

\* C11 witness of the coercion case: username 5 is reported as ill-typed once,
\* next to the missing email and the age out of range.
C11_CoercionReached ==
    /\ BodyValidated /\ Handler = "create_user4" /\ "username" \in DOMAIN req.body
    /\ req.body["username"].t = "int" /\ Cardinality(errors) = 3

\* The create_user handler of the database example returning or raising.
CreateUserEnds ==
    /\ app = "main8" /\ pc = "handler" /\ Handler = "create_user"
    /\ pc' \in {"shape", "teardown"} /\ exc' # "cancelled"
Holds(st, field, v) == \E k \in 1..Len(st.users) : st.users[k][field] = v

\* C12: whatever requests came before, a POST /users with the username of a
\* stored user is answered 400 with the username named as the duplicate, a
\* new username with the email of a stored user is answered 400 with the email
\* named, in both cases the users table is left as it was, and the response
\* and the table stay so until the request has ended.
C12_DuplicateRejected ==
    [][/\ CreateUserEnds =>
            LET u == args["user"].o
                sameName == Holds(store, "username", u["username"])
                sameMail == Holds(store, "email", u["email"])
            IN  /\ sameName =>
                      (status' = 400 /\ detail' = "username" /\ store' = store)
                /\ (~sameName /\ sameMail) =>
                      (status' = 400 /\ detail' = "email" /\ store' = store)
                /\ (~sameName /\ ~sameMail) =>
                      (status' = 0 /\ Len(store'.users) = Len(store.users) + 1)
       /\ (app = "main8" /\ pc = "teardown" /\ status = 400) =>
            (status' = 400 /\ detail' = detail /\ store' = store)
      ]_vars

\* C12 witness: user 1 was renamed by update_user, and a POST /users with the
\* new name has ended in 400 for the username.
C12_Witness ==
    /\ app = "main8" /\ pc = "done" /\ Dispatched /\ Handler = "create_user"
    /\ status = 400 /\ detail = "username"
    /\ \E k \in 1..Len(store.users) :
          /\ store.users[k]["username"] = req.body["username"]
          /\ store.users[k]["updated_at"] # store.users[k]["created_at"]

\* C12 witness of the email case: a new username with a stored email ended in 400.
C12_EmailReached ==
    /\ app = "main8" /\ pc = "done" /\ Dispatched /\ Handler = "create_user"
    /\ status = 400 /\ detail = "email"
    /\ ~Holds(store, "username", req.body["username"])

GetUser == app = "main8" /\ Dispatched /\ Handler = "get_user8"
GetUserEnded == GetUser /\ pc = "done" /\ HandlerRan /\ exc # "cancelled"
WithId(st, id) == {k \in 1..Len(st.users) : st.users[k]["id"] = id}

\* C13: whatever create, update, delete and reset requests came before,
\* GET /users/{user_id} is answered 404 exactly when no stored user has the id,
\* and otherwise 200 with the fields of the stored user (as create_user or the
\* last update_user wrote them); serving the request never changes the table.
C13_GetUserReflectsStore ==
    /\ [](GetUserEnded =>
            LET rows == WithId(store, args["user_id"])
            IN  /\ status \in {200, 404}
                /\ (status = 404) <=> (rows = {})
                /\ (status = 200) =>
                      /\ Cardinality(rows) = 1
                      /\ \A k \in rows : response = RObj(store.users[k]))
    /\ [][(GetUser /\ pc # "done") => store' = store]_vars

\* C13 witness: user 1, renamed by update_user, is returned under its new name.
C13_Witness ==
    /\ GetUserEnded /\ status = 200 /\ args["user_id"] = VInt(1)
    /\ response.o["username"] = VStr(Text2.bob)
    /\ response.o["updated_at"] # response.o["created_at"]

\* C13 witness of the 404 case: the id had been stored and was deleted or reset.
C13_DeletedReached ==
    /\ GetUserEnded /\ status = 404 /\ args["user_id"] = VInt(1)
    /\ store.nextId > 1 /\ nreq = 2

CreateItem == app = "main6" /\ Dispatched /\ Handler = "create_item"
\* The create_item handler returning or raising.
CreateItemEnds ==
    /\ CreateItem /\ pc = "handler" /\ pc' \in {"shape", "teardown"} /\ exc' # "cancelled"

\* C14: in every state of fake_items that create_item and delete_item requests
\* lead to, the one without any item included, create_item returns an id that
\* was not a key before the call, stores the item under it, leaves the other
\* entries as they were, and the request completes with 201.
C14_CreateItemFresh ==
    /\ [][CreateItemEnds =>
            /\ status' = 0
            /\ response'.k = "obj"
            /\ LET new_id == response'.o["id"].n
                IN  /\ new_id \notin DOMAIN store.items
                    /\ DOMAIN store'.items = DOMAIN store.items \cup {new_id}
                    /\ store'.items[new_id] = args["item"].o
                    /\ \A k \in DOMAIN store.items : store'.items[k] = store.items[k]
         ]_vars
    /\ [](CreateItem /\ pc = "done" /\ HandlerRan /\ exc # "cancelled" => status = 201)

\* The same, for the calls that find at least one item in fake_items.
CreateItemFreshUnlessEmpty ==
    [][(CreateItemEnds /\ DOMAIN store.items # {}) =>
            /\ status' = 0
            /\ response'.o["id"].n \notin DOMAIN store.items
            /\ DOMAIN store'.items = DOMAIN store.items \cup {response'.o["id"].n}
            /\ \A k \in DOMAIN store.items : store'.items[k] = store.items[k]
      ]_vars

\* A create_item request that found fake_items empty has ended.
CreateItemOnEmptyEnded ==
    /\ CreateItem /\ pc = "done" /\ HandlerRan /\ exc # "cancelled"
    /\ DOMAIN store.items = {}

\* C15: in every state of the users table, whatever create_user, update_user,
\* delete_user and reset_database requests were served, one after the other or
\* side by side, no two rows share a username and no two share an email; an
\* update_user to the username or email of another row leaves no such pair.
C15_UniqueUsers ==
    app = "main8" =>
        \A j, k \in 1..Len(store.users) :
            j # k => /\ store.users[j]["username"] # store.users[k]["username"]
                     /\ store.users[j]["email"] # store.users[k]["email"]
                     /\ store.users[j]["id"] # store.users[k]["id"]

\* C15 witness: an update_user to the username and email of another stored
\* row has ended, refused by the unique index, with both rows still stored.
C15_Witness ==
    \E i \in Sessions :
        /\ sessions[i].op = "update_user" /\ sessions[i].pc = "done"
        /\ sessions[i].status = 500 /\ sessions[i].detail = "integrity"
        /\ Holds(store, "id", VInt(sessions[i].id))
        /\ \E k \in 1..Len(store.users) :
              /\ store.users[k]["id"] # VInt(sessions[i].id)
              /\ store.users[k]["username"] = sessions[i].body["username"]

\* Two POST /users with the same username have both ended, no other request
\* being served next to them.
CreatedSideBySide(i, j) ==
    /\ i # j
    /\ sessions[i].op = "create_user" /\ sessions[j].op = "create_user"
    /\ sessions[i].pc = "done" /\ sessions[j].pc = "done"
    /\ sessions[i].body["username"] = sessions[j].body["username"]
    /\ \A k \in Sessions \ {i, j} : sessions[k].pc = "idle"

\* C16: of two POST /users with the same username served side by side on a
\* table without that username, whatever the order of their queries and
\* commits, one stores the user and is answered 201 and the other is answered
\* 400 for the username taken, and nothing else.
C16_OneCreatedOtherRejected ==
    \A i, j \in Sessions :
        (CreatedSideBySide(i, j) /\ sessions[i].status = 201) =>
            (sessions[j].status = 400 /\ sessions[j].detail = "username")

\* Both requests found the username free; the second commit met the unique
\* index and its request ended in 500.
CreateRaceLost ==
    \E i, j \in Sessions :
        /\ CreatedSideBySide(i, j)
        /\ sessions[i].status = 201
        /\ sessions[j].status = 500 /\ sessions[j].detail = "integrity"
====
